---- MODULE Spec2Model ----
(***************************************************************************)
(* Model of engine.py: the validation / test driver loops of a binary      *)
(* segmentation model (val_one_epoch, test_one_epoch, test_all_images).    *)
(*                                                                         *)
(* Encoding.  Scores, labels and thresholds are real numbers in the code;  *)
(* here they are integers in tenths (0.5 is 5).  A ratio is the pair       *)
(* <<numerator, denominator>>; the literal 0 of the zero-denominator       *)
(* convention is <<0, 1>>; numpy's not-a-number mean (0/0) is <<0, 0>>.    *)
(* A not-a-number list entry is NaN.  Every sample has one spatial         *)
(* element, so a batch array of shape (B, 1, 1) is a sequence of B values. *)
(***************************************************************************)
EXTENDS Integers, Sequences, FiniteSets

VARIABLES
    threshold,      \* config.threshold (tenths)
    val_interval,   \* config.val_interval
    csv_file,       \* csv_folder/test_results.csv: [exists, rows]
    csv0,           \* what the file was before the first run
    fn,             \* the function being executed
    pc,             \* "idle", "loop", "done", "error"
    err,            \* which statement raised, "" if none
    epoch,          \* argument of val_one_epoch
    batch_size,     \* batch size of test_loader
    model_tuple,    \* TRUE when model(img) returns a tuple
    loader_pos,     \* number of samples test_loader has yielded
    file_name,      \* file names of the current batch
    out, msk,       \* current batch after squeeze(1)
    preds, gts,     \* lists of batch arrays
    loss_list,
    hd_list, asd_list,
    geo_log,        \* which call the last printed diagnostic came from
    bin_pred, bin_gt,
    y_pre, y_true,
    confusion,      \* matrix, as a sequence of rows
    cells,          \* [TN, FP, FN, TP]
    stats,          \* [accuracy, sensitivity, specificity, f1_or_dsc, miou]
    avg_hd, avg_asd,
    results,        \* rows collected by test_all_images
    file_exists,
    ret             \* returned np.mean(loss_list)

vars == <<threshold, val_interval, csv_file, csv0, fn, pc, err, epoch,
          batch_size, model_tuple, loader_pos, file_name, out, msk, preds,
          gts, loss_list, hd_list, asd_list, geo_log, bin_pred, bin_gt, y_pre,
          y_true, confusion, cells, stats, avg_hd, avg_asd, results, file_exists, ret>>

(* ------------------------------ bounds -------------------------------- *)
MaxSamples == 3     \* samples a loader yields at most
MaxBatch == 2       \* largest batch size
MaxEpoch == 2       \* epochs passed to val_one_epoch
MaxCsvRows == 2     \* a further test_all_images run starts below this many rows

Scores == {4, 6}        \* prediction scores
Labels == {4, 5}        \* soft ground-truth labels
Thresholds == {6, 7}    \* values of config.threshold
GeoResults == {<<0, 0>>, <<2, 1>>}  \* <<hd, asd>> of a successful pair of calls

GtThreshold == 5    \* the literal 0.5
NaN == -1           \* np.nan as a list entry (distances are >= 0)

(* ------------------------------ helpers ------------------------------- *)
RECURSIVE SumSeq(_)
SumSeq(s) == IF s = <<>> THEN 0 ELSE Head(s) + SumSeq(Tail(s))

Abs(x) == IF x < 0 THEN -x ELSE x

\* criterion(out, msk): a scalar function of prediction and target (L1)
criterion(o, m) == SumSeq([i \in DOMAIN o |-> Abs(o[i] - m[i])])

\* np.mean(list): sum / count, 0/0 for the empty list
Mean(list) == <<SumSeq(list), Len(list)>>

\* a strict comparison in place of >=
BinarizeStrict(values, thr) == [i \in DOMAIN values |-> IF values[i] > thr THEN 1 ELSE 0]

\* np.where(values >= thr, 1, 0)
Binarize(values, thr) == [i \in DOMAIN values |-> IF values[i] >= thr THEN 1 ELSE 0]

\* np.array(list_of_batches) needs batches of one shape: with batches of
\* different sizes it raises, or (older numpy) builds an array of arrays on
\* which the comparison with the threshold raises
Stackable(batches) == \A i, j \in DOMAIN batches : Len(batches[i]) = Len(batches[j])

\* np.array(list_of_batches).reshape(-1); arr.flatten()
RECURSIVE Flatten(_)
Flatten(batches) == IF batches = <<>> THEN <<>> ELSE Head(batches) \o Flatten(Tail(batches))

RECURSIVE SortedSeq(_)
SortedSeq(S) == IF S = {} THEN <<>>
                ELSE LET m == CHOOSE x \in S : \A y \in S : x <= y
                     IN <<m>> \o SortedSeq(S \ {m})

\* sklearn unique_labels(y_true, y_pred): the sorted labels that occur
UniqueLabels(yt, yp) == SortedSeq({yt[i] : i \in DOMAIN yt} \cup {yp[i] : i \in DOMAIN yp})

\* sklearn confusion_matrix(y_true, y_pred, labels): entry [i][j] counts the
\* elements whose true label is labels[i] and predicted label is labels[j]
ConfusionMatrix(yt, yp, labels) ==
    [i \in DOMAIN labels |-> [j \in DOMAIN labels |->
        Cardinality({k \in DOMAIN yt : yt[k] = labels[i] /\ yp[k] = labels[j]})]]

\* confusion.size, np.sum(confusion)
MatrixSize(m) == Len(m) * Len(m)
MatrixSum(m) == SumSeq([i \in DOMAIN m |-> SumSeq(m[i])])

ZeroCells == [TN |-> 0, FP |-> 0, FN |-> 0, TP |-> 0]

\* FN read from confusion[0,1] instead of confusion[1,0]
IndexCellsRepeated(m) == [TN |-> m[1][1], FP |-> m[1][2], FN |-> m[1][2], TP |-> m[2][2]]

\* TN, FP, FN, TP = confusion[0,0], confusion[0,1], confusion[1,0], confusion[1,1]
IndexCells(m) == [TN |-> m[1][1], FP |-> m[1][2], FN |-> m[2][1], TP |-> m[2][2]]

\* a / b without the zero test
RatioUnguarded(a, b) == <<a, b>>

\* a / b if b != 0 else 0
Ratio(a, b) == IF b # 0 THEN <<a, b>> ELSE <<0, 1>>

Statistics(c, total) ==
    [accuracy    |-> Ratio(c.TN + c.TP, total),
     sensitivity |-> Ratio(c.TP, c.TP + c.FN),
     specificity |-> Ratio(c.TN, c.TN + c.FP),
     f1_or_dsc   |-> Ratio(2 * c.TP, 2 * c.TP + c.FP + c.FN),
     miou        |-> Ratio(c.TP, c.TP + c.FP + c.FN)]

NoStats == Statistics(ZeroCells, 0)

(* ------------------------------ loader -------------------------------- *)
\* the batches a loader of batch size b can yield after pos samples: b
\* samples, or fewer for the last batch of the pass
Min(a, b) == IF a <= b THEN a ELSE b
BatchLens(b, pos) == 1..Min(b, MaxSamples - pos)
Batches(b, pos) == UNION {[1..n -> Scores \X Labels] : n \in BatchLens(b, pos)}

\* a batch can follow only full batches
MoreBatches == /\ loader_pos < MaxSamples
               /\ (loss_list # <<>> => Len(msk) = batch_size)

Names(n) == [i \in 1..n |-> loader_pos + i]

(* ------------------------------- Init --------------------------------- *)
Header == [hdr |-> TRUE,
           cols |-> <<"File Name", "Loss", "mIoU", "F1/DSC", "Accuracy", "Specificity", "Sensitivity">>]

Locals ==
    /\ fn = "none" /\ pc = "idle" /\ err = ""
    /\ epoch = 0 /\ batch_size = 1 /\ model_tuple = FALSE
    /\ loader_pos = 0 /\ file_name = <<>> /\ out = <<>> /\ msk = <<>>
    /\ preds = <<>> /\ gts = <<>> /\ loss_list = <<>>
    /\ hd_list = <<>> /\ asd_list = <<>> /\ geo_log = ""
    /\ bin_pred = <<>> /\ bin_gt = <<>> /\ y_pre = <<>> /\ y_true = <<>>
    /\ confusion = <<>> /\ cells = ZeroCells /\ stats = NoStats
    /\ avg_hd = <<0, 0>> /\ avg_asd = <<0, 0>>
    /\ results = <<>> /\ file_exists = FALSE /\ ret = <<0, 0>>

Init ==
    /\ threshold \in Thresholds
    /\ val_interval = 2
    /\ csv_file = [exists |-> FALSE, rows |-> <<>>]
    /\ csv0 = "absent"
    /\ Locals

\* the file states the existence check can meet before the first run
PriorRow == [hdr |-> FALSE, cols |-> <<1, 0, <<0, 1>>, <<0, 1>>, <<1, 1>>, <<1, 1>>, <<0, 1>>>>]

InitCsv ==
    /\ threshold \in Thresholds
    /\ val_interval = 2
    /\ \/ csv0 = "absent"  /\ csv_file = [exists |-> FALSE, rows |-> <<>>]
       \/ csv0 = "empty"   /\ csv_file = [exists |-> TRUE, rows |-> <<>>]
       \/ csv0 = "content" /\ csv_file = [exists |-> TRUE, rows |-> <<Header, PriorRow>>]
    /\ Locals

(* --------------------------- model output ----------------------------- *)
\* model(img): the prediction array, or a tuple whose first element it is
Model(scores, tuple) == [is_tuple |-> tuple,
                         value |-> IF tuple THEN <<scores, scores>> ELSE scores]

\* if type(out) is tuple: out = out[0]
Unwrap(o) == IF o.is_tuple THEN Model(o.value[1], FALSE) ELSE o

\* out.squeeze(1) exists only on an array
CanSqueeze(o) == ~o.is_tuple
Squeeze(o) == o.value

\* the prediction the loss is computed on
Primary(o) == IF o.is_tuple THEN o.value[1] ELSE o.value

ScoresOf(batch) == [i \in DOMAIN batch |-> batch[i][1]]
LabelsOf(batch) == [i \in DOMAIN batch |-> batch[i][2]]

(* ------------------------- distance statistics ------------------------ *)
\* try: hd(...); asd(...)  except Exception: both np.nan
TryDistances(g, hd_raises, asd_raises) ==
    IF hd_raises \/ asd_raises THEN <<NaN, NaN>> ELSE g

\* np.mean(list): one not-a-number entry makes the mean not-a-number
MeanPropagating(list) ==
    IF \E i \in DOMAIN list : list[i] = NaN THEN <<0, 0>> ELSE Mean(list)

\* np.nanmean(list): not-a-number entries count as 0 in the sum and are
\* left out of the count
NanMean(list) ==
    <<SumSeq([i \in DOMAIN list |-> IF list[i] = NaN THEN 0 ELSE list[i]]),
      Cardinality({i \in DOMAIN list : list[i] # NaN})>>

\* np.nanmean(list) if len(list) > 0 else np.nan
AvgDistance(list) == IF Len(list) > 0 THEN NanMean(list) ELSE <<0, 0>>

(* --------------------------- pooled metrics --------------------------- *)
\* preds/gts -> y_pre/y_true -> confusion -> TN, FP, FN, TP -> statistics,
\* as val_one_epoch and test_one_epoch do after the loop
PooledMetrics ==
    IF ~(Stackable(preds) /\ Stackable(gts))
    THEN /\ pc' = "error" /\ err' = "np.array"
         /\ UNCHANGED <<y_pre, y_true, confusion, cells, stats>>
    ELSE /\ y_pre' = Binarize(Flatten(preds), threshold)
         /\ y_true' = Binarize(Flatten(gts), GtThreshold)
         /\ confusion' = ConfusionMatrix(y_true', y_pre', UniqueLabels(y_true', y_pre'))
         /\ IF Len(confusion') < 2
            THEN /\ pc' = "error" /\ err' = "confusion[0,1]"
                 /\ UNCHANGED <<cells, stats>>
            ELSE /\ cells' = IndexCells(confusion')
                 /\ stats' = Statistics(cells', MatrixSum(confusion'))
                 /\ pc' = "done" /\ err' = ""

(* --------------------------- val_one_epoch ---------------------------- *)
ValStart ==
    /\ pc = "idle"
    /\ \E e \in 1..MaxEpoch, b \in 1..MaxBatch, t \in BOOLEAN :
          /\ epoch' = e /\ batch_size' = b /\ model_tuple' = t
    /\ fn' = "val_one_epoch" /\ pc' = "loop"
    /\ UNCHANGED <<threshold, val_interval, csv_file, csv0, err, loader_pos,
                   file_name, out, msk, preds, gts, loss_list, hd_list, asd_list,
                   geo_log, bin_pred, bin_gt, y_pre, y_true, confusion, cells, stats,
                   avg_hd, avg_asd, results, file_exists, ret>>

ValBatch ==
    /\ pc = "loop" /\ fn = "val_one_epoch" /\ MoreBatches
    /\ \E batch \in Batches(batch_size, loader_pos) :
          LET o == Model(ScoresOf(batch), model_tuple)
              m == LabelsOf(batch)
          IN /\ file_name' = Names(Len(batch))
             /\ loader_pos' = loader_pos + Len(batch)
             /\ loss_list' = Append(loss_list, criterion(Primary(o), m))
             /\ msk' = m
             /\ gts' = Append(gts, m)
             /\ out' = Squeeze(Unwrap(o))
             /\ preds' = Append(preds, out')
    /\ UNCHANGED <<threshold, val_interval, csv_file, csv0, fn, pc, err, epoch,
                   batch_size, model_tuple, hd_list, asd_list, geo_log, bin_pred, bin_gt,
                   y_pre, y_true, confusion, cells, stats, avg_hd, avg_asd,
                   results, file_exists, ret>>

ValFinish ==
    /\ pc = "loop" /\ fn = "val_one_epoch"
    /\ IF epoch % val_interval = 0
       THEN PooledMetrics
       ELSE /\ pc' = "done"
            /\ UNCHANGED <<err, y_pre, y_true, confusion, cells, stats>>
    /\ ret' = IF pc' = "done" THEN Mean(loss_list) ELSE ret
    /\ UNCHANGED <<threshold, val_interval, csv_file, csv0, fn, epoch,
                   batch_size, model_tuple, loader_pos, file_name, out, msk,
                   preds, gts, loss_list, hd_list, asd_list, geo_log, bin_pred,
                   bin_gt, avg_hd, avg_asd, results, file_exists>>

(* --------------------------- test_one_epoch --------------------------- *)
TestStart ==
    /\ pc = "idle"
    /\ \E b \in 1..MaxBatch, t \in BOOLEAN :
          /\ batch_size' = b /\ model_tuple' = t
    /\ fn' = "test_one_epoch" /\ pc' = "loop"
    /\ UNCHANGED <<threshold, val_interval, csv_file, csv0, err, epoch,
                   loader_pos, file_name, out, msk, preds, gts, loss_list,
                   hd_list, asd_list, geo_log, bin_pred, bin_gt, y_pre, y_true,
                   confusion, cells, stats, avg_hd, avg_asd, results,
                   file_exists, ret>>

TestBatch ==
    /\ pc = "loop" /\ fn = "test_one_epoch" /\ MoreBatches
    /\ \E batch \in Batches(batch_size, loader_pos), g \in GeoResults,
          hd_raises \in BOOLEAN, asd_raises \in BOOLEAN :
          LET o == Model(ScoresOf(batch), model_tuple)
              m == LabelsOf(batch)
              d == TryDistances(g, hd_raises, asd_raises)
          IN /\ file_name' = Names(Len(batch))
             /\ loader_pos' = loader_pos + Len(batch)
             /\ loss_list' = Append(loss_list, criterion(Primary(o), m))
             /\ msk' = m
             /\ gts' = Append(gts, m)
             /\ out' = Squeeze(Unwrap(o))
             /\ preds' = Append(preds, out')
             /\ bin_pred' = Binarize(out', threshold)
             /\ bin_gt' = Binarize(msk', GtThreshold)
             /\ geo_log' = IF hd_raises THEN "hd"
                           ELSE IF asd_raises THEN "asd" ELSE geo_log
             /\ hd_list' = Append(hd_list, d[1])
             /\ asd_list' = Append(asd_list, d[2])
    /\ UNCHANGED <<threshold, val_interval, csv_file, csv0, fn, pc, err, epoch,
                   batch_size, model_tuple, y_pre, y_true, confusion, cells,
                   stats, avg_hd, avg_asd, results, file_exists, ret>>

TestFinish ==
    /\ pc = "loop" /\ fn = "test_one_epoch"
    /\ PooledMetrics
    /\ IF pc' = "done"
       THEN /\ avg_hd' = AvgDistance(hd_list)
            /\ avg_asd' = AvgDistance(asd_list)
            /\ ret' = Mean(loss_list)
       ELSE UNCHANGED <<avg_hd, avg_asd, ret>>
    /\ UNCHANGED <<threshold, val_interval, csv_file, csv0, fn, epoch,
                   batch_size, model_tuple, loader_pos, file_name, out, msk,
                   preds, gts, loss_list, hd_list, asd_list, geo_log, bin_pred,
                   bin_gt, results, file_exists>>

(* --------------------------- test_all_images -------------------------- *)
\* TN, FP, FN, TP = confusion.ravel() if confusion.size == 4 else (0, 0, 0, 0)
RavelCells(m) == IF MatrixSize(m) = 4 THEN IndexCells(m) ELSE ZeroCells

\* [file_name[0], loss.item(), miou, f1_or_dsc, accuracy, specificity, sensitivity]
ResultRow(names, loss, st) ==
    [hdr |-> FALSE,
     cols |-> <<names[1], loss, st.miou, st.f1_or_dsc, st.accuracy,
                st.specificity, st.sensitivity>>]

\* the header written on every run
HeaderAlways(exists) == <<Header>>

\* if not file_exists: writer.writerow([...header...])
HeaderRows(exists) == IF ~exists THEN <<Header>> ELSE <<>>

DataRows(rows) == Cardinality({i \in DOMAIN rows : ~rows[i].hdr})

AllStart ==
    /\ pc = "idle"
    /\ DataRows(csv_file.rows) < MaxCsvRows
    /\ \E b \in 1..MaxBatch, t \in BOOLEAN :
          /\ batch_size' = b /\ model_tuple' = t
    /\ fn' = "test_all_images" /\ pc' = "loop"
    /\ UNCHANGED <<threshold, val_interval, csv_file, csv0, err, epoch,
                   loader_pos, file_name, out, msk, preds, gts, loss_list,
                   hd_list, asd_list, geo_log, bin_pred, bin_gt, y_pre, y_true,
                   confusion, cells, stats, avg_hd, avg_asd, results,
                   file_exists, ret>>

AllBatch ==
    /\ pc = "loop" /\ fn = "test_all_images" /\ MoreBatches
    /\ \E batch \in Batches(batch_size, loader_pos) :
          LET o == Model(ScoresOf(batch), model_tuple)
              m == LabelsOf(batch)
              loss == criterion(Primary(o), m)
          IN /\ file_name' = Names(Len(batch))
             /\ loader_pos' = loader_pos + Len(batch)
             /\ loss_list' = Append(loss_list, loss)
             /\ msk' = m
             /\ IF ~CanSqueeze(o)
                THEN /\ pc' = "error" /\ err' = "out.squeeze"
                     /\ UNCHANGED <<out, bin_pred, bin_gt, y_pre, y_true,
                                    confusion, cells, stats, results>>
                ELSE /\ out' = Squeeze(o)
                     /\ bin_pred' = Binarize(out', threshold)
                     /\ bin_gt' = Binarize(msk', GtThreshold)
                     /\ y_pre' = Flatten(<<bin_pred'>>)
                     /\ y_true' = Flatten(<<bin_gt'>>)
                     /\ confusion' = ConfusionMatrix(y_true', y_pre', <<0, 1>>)
                     /\ cells' = RavelCells(confusion')
                     /\ stats' = Statistics(cells', MatrixSum(confusion'))
                     /\ results' = Append(results, ResultRow(file_name', loss, stats'))
                     /\ UNCHANGED <<pc, err>>
    /\ UNCHANGED <<threshold, val_interval, csv_file, csv0, fn, epoch,
                   batch_size, model_tuple, preds, gts, hd_list, asd_list,
                   geo_log, avg_hd, avg_asd, file_exists, ret>>

\* file_exists = os.path.isfile(csv_path); open(csv_path, 'a'); header if
\* not file_exists; writerows(results)
AllWrite ==
    /\ pc = "loop" /\ fn = "test_all_images"
    /\ file_exists' = csv_file.exists
    /\ csv_file' = [exists |-> TRUE,
                    rows |-> csv_file.rows
                             \o HeaderRows(file_exists')
                             \o results]
    /\ ret' = Mean(loss_list)
    /\ pc' = "done"
    /\ UNCHANGED <<threshold, val_interval, csv0, fn, err, epoch, batch_size,
                   model_tuple, loader_pos, file_name, out, msk, preds, gts,
                   loss_list, hd_list, asd_list, geo_log, bin_pred, bin_gt,
                   y_pre, y_true, confusion, cells, stats, avg_hd, avg_asd,
                   results>>

\* the call has returned or raised; the caller may call again
Return ==
    /\ pc \in {"done", "error"}
    /\ fn' = "none" /\ pc' = "idle" /\ err' = ""
    /\ epoch' = 0 /\ batch_size' = 1 /\ model_tuple' = FALSE
    /\ loader_pos' = 0 /\ file_name' = <<>> /\ out' = <<>> /\ msk' = <<>>
    /\ preds' = <<>> /\ gts' = <<>> /\ loss_list' = <<>>
    /\ hd_list' = <<>> /\ asd_list' = <<>> /\ geo_log' = ""
    /\ bin_pred' = <<>> /\ bin_gt' = <<>> /\ y_pre' = <<>> /\ y_true' = <<>>
    /\ confusion' = <<>> /\ cells' = ZeroCells /\ stats' = NoStats
    /\ avg_hd' = <<0, 0>> /\ avg_asd' = <<0, 0>>
    /\ results' = <<>> /\ file_exists' = FALSE /\ ret' = <<0, 0>>
    /\ UNCHANGED <<threshold, val_interval, csv_file, csv0>>

(* --------------------------- specifications --------------------------- *)
\* one call of any of the three functions in a fresh work directory
Next == \/ ValStart \/ ValBatch \/ ValFinish
        \/ TestStart \/ TestBatch \/ TestFinish
        \/ AllStart \/ AllBatch \/ AllWrite

Spec == Init /\ [][Next]_vars

\* repeated test_all_images runs of one writer against one csv_folder
NextCsv == AllStart \/ AllBatch \/ AllWrite \/ Return

SpecCsv == InitCsv /\ [][NextCsv]_vars

(* ------------------------------ properties ---------------------------- *)
Val == fn = "val_one_epoch"
Test == fn = "test_one_epoch"
All == fn = "test_all_images"

MetricsEpoch == epoch % val_interval = 0

\* the pass went through the pooled confusion matrix
Pooled == (Val /\ MetricsEpoch) \/ Test

\* TN, FP, FN, TP and the five statistics hold values the code computed
StatsComputed == (Pooled /\ pc = "done") \/ (All /\ results # <<>>)

PooledTrue == Binarize(Flatten(gts), GtThreshold)
PooledPre == Binarize(Flatten(preds), threshold)
Occurring(a, b) == {a[i] : i \in DOMAIN a} \cup {b[i] : i \in DOMAIN b}

\* r is n/d, or 0 when d = 0, and was obtained without dividing by zero
IsRatio(r, n, d) == /\ r[2] # 0
                    /\ IF d = 0 THEN r[1] = 0 ELSE r[1] * d = n * r[2]

\* C1: the confusion matrix of a non-empty input always yields the four
\* cells; no evaluation raises at the cell indexing, also when only one
\* class occurs in y_true and y_pre.
C1_ConfusionNeverRaises ==
    ~(pc = "error" /\ err = "confusion[0,1]" /\ Flatten(gts) # <<>>)

\* C2: each statistic is 0 when its own denominator is 0 and its ratio
\* otherwise, no division by zero is performed, and the all-zero matrix
\* gives five zeros.
C2_StatisticsZeroConvention ==
    /\ StatsComputed =>
          LET c == cells
          IN /\ IsRatio(stats.accuracy, c.TN + c.TP, c.TN + c.FP + c.FN + c.TP)
             /\ IsRatio(stats.sensitivity, c.TP, c.TP + c.FN)
             /\ IsRatio(stats.specificity, c.TN, c.TN + c.FP)
             /\ IsRatio(stats.f1_or_dsc, 2 * c.TP, 2 * c.TP + c.FP + c.FN)
             /\ IsRatio(stats.miou, c.TP, c.TP + c.FP + c.FN)
    /\ LET z == Statistics(ZeroCells, 0)
       IN \A k \in DOMAIN z : z[k][1] = 0 /\ z[k][2] # 0

\* a pass whose ground truth has no positive element: sensitivity falls back
\* to 0 while specificity is a proper ratio
C2_Witness ==
    /\ StatsComputed /\ Test
    /\ cells.TP + cells.FN = 0 /\ cells.FP > 0 /\ cells.TN > 0
    /\ stats.sensitivity = <<0, 1>> /\ stats.specificity[2] = cells.TN + cells.FP

\* C3: in test_one_epoch every batch leaves one entry in hd_list and one in
\* asd_list, a failed distance call makes both entries of its batch
\* not-a-number, and a pass in which a distance call failed is not aborted:
\* the final metrics are still computed.
C3_DistanceFailureNeverAborts ==
    Test =>
       /\ Len(hd_list) = Len(loss_list) /\ Len(asd_list) = Len(loss_list)
       /\ \A i \in DOMAIN hd_list : (hd_list[i] = NaN) <=> (asd_list[i] = NaN)
       /\ (\E i \in DOMAIN hd_list : hd_list[i] = NaN) => pc # "error"

\* the part of C3 that is the try/except alone: one entry per batch in each
\* list, and not-a-number in both or in neither
C3_OneEntryPerBatch ==
    Test =>
       /\ Len(hd_list) = Len(loss_list) /\ Len(asd_list) = Len(loss_list)
       /\ \A i \in DOMAIN hd_list : (hd_list[i] = NaN) <=> (asd_list[i] = NaN)

HeaderOnceFirst(rows) ==
    /\ rows # <<>> /\ rows[1].hdr
    /\ \A i \in 2..Len(rows) : ~rows[i].hdr

\* C4 as stated: whatever the file was before the first run (absent, with
\* content, empty), after a run that wrote its rows the file has the header
\* exactly once, as its first row.
C4_HeaderOnceFromAnyFile ==
    (All /\ pc = "done" /\ results # <<>>) => HeaderOnceFirst(csv_file.rows)

\* C4 amended: from an absent file, or a file that already starts with the
\* header, the file has the header exactly once and first whenever it
\* exists; a file that exists but is empty before the first run never gets
\* a header.
C4_HeaderOnceFromAbsentOrHeaded ==
    /\ (csv0 \in {"absent", "content"} /\ csv_file.exists)
          => HeaderOnceFirst(csv_file.rows)
    /\ csv0 = "empty" => \A i \in DOMAIN csv_file.rows : ~csv_file.rows[i].hdr

\* a later run on a file the first run created: it found the file, appended
\* its rows, and the header is still single and first
C4_Witness ==
    /\ csv0 = "absent" /\ All /\ pc = "done"
    /\ file_exists /\ results # <<>>
    /\ Len(csv_file.rows) > 1 + Len(results)
    /\ HeaderOnceFirst(csv_file.rows)

\* C5: a test_all_images run appends one data row per sample the loader
\* yielded, for every batch size.
C5_OneRowPerSample ==
    (All /\ pc = "done") => Len(results) = loader_pos

\* C6: whenever both classes occur in the pooled data, val_one_epoch and
\* test_one_epoch obtain the confusion matrix of the concatenation of all
\* batches, for batches of equal or different sizes.
C6_PooledConfusion ==
    (Pooled /\ pc \in {"done", "error"} /\ Occurring(PooledTrue, PooledPre) = {0, 1})
       => /\ pc = "done"
          /\ cells = IndexCells(ConfusionMatrix(PooledTrue, PooledPre, <<0, 1>>))

\* C7: a tuple-valued model output is unwrapped before the metrics and never
\* makes an evaluation fail.
C7_TupleOutputNeverFails ==
    model_tuple => ~(pc = "error" /\ err = "out.squeeze")

ZeroOne(b, v, thr) ==
    /\ Len(b) = Len(v)
    /\ \A i \in DOMAIN v : /\ b[i] \in {0, 1}
                           /\ (b[i] = 1) <=> (v[i] >= thr)

\* C8: at every binarization site a prediction element is 1 exactly when
\* its score >= config.threshold and a ground-truth element is 1 exactly
\* when its value >= 0.5, whatever config.threshold is.
C8_TwoThresholds ==
    /\ (Pooled /\ pc = "done") =>
          /\ ZeroOne(y_pre, Flatten(preds), threshold)
          /\ ZeroOne(y_true, Flatten(gts), 5)
    /\ (Test /\ loss_list # <<>>) =>
          /\ ZeroOne(bin_pred, out, threshold)
          /\ ZeroOne(bin_gt, msk, 5)
    /\ (All /\ results # <<>>) =>
          /\ ZeroOne(bin_pred, out, threshold) /\ y_pre = bin_pred
          /\ ZeroOne(bin_gt, msk, 5) /\ y_true = bin_gt

\* a label of 0.5 counted positive under a decision threshold above it, next
\* to a score between the two thresholds counted negative
C8_Witness ==
    /\ Test /\ pc = "done" /\ threshold = 7
    /\ \E i \in DOMAIN y_true :
          /\ Flatten(gts)[i] = 5 /\ y_true[i] = 1
          /\ Flatten(preds)[i] = 6 /\ y_pre[i] = 0

Valid(list) == SelectSeq(list, LAMBDA x : x # NaN)

\* avg is the mean of exactly the valid entries of list, not-a-number if
\* there is none
SkipsNaN(avg, list) ==
    IF Valid(list) = <<>> THEN avg = <<0, 0>>
    ELSE avg = <<SumSeq(Valid(list)), Len(Valid(list))>>

\* C9: avg_hd and avg_asd are the means of exactly the entries that are not
\* not-a-number, and not-a-number when the list is empty or has no such
\* entry.
C9_SkipNaNMean ==
    /\ SkipsNaN(AvgDistance(hd_list), hd_list)
    /\ SkipsNaN(AvgDistance(asd_list), asd_list)
    /\ (Test /\ pc = "done") => /\ SkipsNaN(avg_hd, hd_list)
                                /\ SkipsNaN(avg_asd, asd_list)

\* a finished pass with a not-a-number entry between two valid ones
C9_Witness ==
    /\ Test /\ pc = "done"
    /\ hd_list = <<2, NaN, 0>> /\ avg_hd = <<2, 2>>
    /\ asd_list = <<1, NaN, 0>> /\ avg_asd = <<1, 2>>

\* C10: TN + FP + FN + TP is the number of elements compared, the length of
\* the flattened binarized ground truth and of the flattened prediction.
C10_CellsSumToElementCount ==
    StatsComputed =>
       /\ cells.TN + cells.FP + cells.FN + cells.TP = Len(y_true)
       /\ Len(y_true) = Len(y_pre)
       /\ Pooled => Len(y_true) = Len(Flatten(gts))
       /\ All => Len(y_true) = Len(msk)

\* a pooled pass over three batches that fills three different cells
C10_Witness ==
    /\ Test /\ pc = "done" /\ Len(gts) = 3
    /\ cells.TN > 0 /\ cells.FN > 0 /\ cells.TP > 0

====
